---------------------------- MODULE Spec2Model ----------------------------
(***************************************************************************)
(* Checkout / order backend: handleCheckout, validatePayment and           *)
(* confirmOrder of CheckoutController, with the Order Store, the Product   *)
(* Catalog, the payment gateway and the mail transport as collaborators.   *)
(* Also ShareController.handleShare with generateShareUrl, and             *)
(* connectToDatabase with the middleware that calls it for every request.  *)
(*                                                                         *)
(* Text values (error and response messages) are tuples of words, so that  *)
(* String.includes(word) is membership of the word in the tuple.           *)
(***************************************************************************)
EXTENDS Integers, Sequences, FiniteSets, TLC

VARIABLES
    products,       \* Product Catalog: the set of Product documents
    orders,         \* Order Store: committed Order documents, in insertion order
    gatewayOrders,  \* orders that exist on the payment gateway's side
    ck,             \* one record per handleCheckout invocation (locals, session, response)
    keySecret,      \* process.env.RAZORPAY_KEY_SECRET, or Null when it is not set
    validations,    \* number of validatePayment calls made
    lastValidate,   \* the last validatePayment call: its body and its response
    confirms,       \* confirmOrder calls in order: body, lookups, response
    emails,         \* confirmation emails dispatched by confirmOrder, with their fate
    unhandled,      \* number of unhandled promise rejections raised by email tasks
    shareCount,     \* number of handleShare calls made
    lastShare,      \* the last handleShare call: its body and its response
    urlCall,        \* the last generateShareUrl call: its arguments and its result
    baseUrlEnv,     \* process.env.BASE_URL, or Null when it is not set
    mongoUri,       \* the connection string built from process.env, or Null
    cachedConnection, \* module variable cachedConnection of connectToDatabase
    connects,       \* number of mongoose.connect calls started
    requests        \* one record per HTTP request passing the database middleware

vars == << products, orders, gatewayOrders, ck, keySecret,
           validations, lastValidate, confirms, emails, unhandled,
           shareCount, lastShare, urlCall, baseUrlEnv,
           mongoUri, cachedConnection, connects, requests >>

payVars == << keySecret, validations, lastValidate >>
confirmVars == << confirms, emails, unhandled >>
shareVars == << shareCount, lastShare, urlCall, baseUrlEnv >>
dbVars == << mongoUri, cachedConnection, connects, requests >>

---------------------------------------------------------------------------
(* Bounds of the model *)

MaxCheckouts == 2      \* handleCheckout invocations, run concurrently
MaxValidates == 2      \* validatePayment calls
MaxConfirms == 2       \* confirmOrder calls

Slots == 1..MaxCheckouts

---------------------------------------------------------------------------
(* Values *)

Null == [null |-> TRUE]          \* null / undefined
NoMsg == << >>                   \* no error caught

\* Product ids: fmt "hex24" is a well-formed ObjectId string, "other" is not.
IdP1 == [fmt |-> "hex24", key |-> 1]
IdP2 == [fmt |-> "hex24", key |-> 2]
IdAbsent == [fmt |-> "hex24", key |-> 9]
IdMalformed == [fmt |-> "other", key |-> 0]

Catalog ==
    { [_id |-> IdP1, name |-> "P1-name", description |-> "d1", price |-> 500,
       category |-> "c1", inventory |-> 3, isActive |-> TRUE],
      [_id |-> IdP2, name |-> "P2-name", description |-> "d2", price |-> 700,
       category |-> "c2", inventory |-> 0, isActive |-> FALSE] }

Secret == [key |-> "secret"]       \* the gateway's shared secret
OtherKey == [key |-> "other"]     \* any other key

GoodEmail == "a@b.com"
BadEmail == "not-an-email"

CheckoutBodies ==
    [productId : {IdP1, IdAbsent, IdMalformed},
     customerEmail : {GoodEmail, BadEmail},
     customerName : {"A"}]

\* String.prototype.includes on a message
Includes(msg, word) == \E k \in 1..Len(msg) : msg[k] = word

MsgInvalidId == << "Invalid", "product", "ID", "format" >>
MsgProductNotFound == << "Product", "not", "found" >>
MsgGatewayThrow == << "Failed", "to", "create", "payment", "order" >>
MsgGatewayNull == << "Razorpay", "order", "creation", "failed", "during", "checkout" >>
MsgSaveFail == << "Failed", "to", "create", "order", "record" >>
MsgDriver == << "MongoServerError" >>       \* an error raised by the database driver

RespValidationFailed == << "CheckOut", "validation", "failed" >>
RespCheckoutOk == << "Checkout", "successful" >>
RespPaymentUnavailable == << "Payment", "service", "unavailable" >>
RespCheckoutFailed == << "Checkout", "process", "failed" >>

\* ApiResponse(res).success / .error
Success(message, data) == [success |-> TRUE, message |-> message, data |-> data]
Failure(message) == [success |-> FALSE, message |-> message, data |-> Null]

---------------------------------------------------------------------------
(* Schemas and model lookups *)

\* CheckoutSchema.safeParse(req.body).success
CheckoutSchemaOk(body) == body.customerEmail = GoodEmail

\* mongoose.Types.ObjectId.isValid
ObjectIdIsValid(id) == id.fmt = "hex24"

\* ProductModel.findById(id)...lean().exec(): the document or null
FindProductById(id) ==
    IF \E p \in products : p._id = id
    THEN CHOOSE p \in products : p._id = id
    ELSE Null

\* OrderModel.findOne({ orderId })
FindOrder(orderId) ==
    IF \E k \in 1..Len(orders) : orders[k].orderId = orderId
    THEN orders[CHOOSE k \in 1..Len(orders) :
                   /\ orders[k].orderId = orderId
                   /\ \A j \in 1..(k - 1) : orders[j].orderId # orderId]
    ELSE Null

\* The Order schema accepts a document only if it carries an order id.
OrderModelValid(doc) == doc.orderId # Null

---------------------------------------------------------------------------
(* handleCheckout *)

IdleCheckout ==
    [pc |-> "idle", body |-> Null, receipt |-> Null, product |-> Null,
     razorpayOrder |-> Null, order |-> Null, error |-> NoMsg,
     session |-> "none", txn |-> "none", pending |-> << >>,
     responses |-> << >>, gatewayCalled |-> FALSE, writeAttempted |-> FALSE,
     commitCalled |-> FALSE, abortCalled |-> FALSE, usedAfterEnd |-> FALSE,
     rejected |-> FALSE]

\* validateAndFetchProduct's returned snapshot
ProductSnapshot(p) ==
    [_id |-> p._id, name |-> p.name, description |-> p.description,
     price |-> p.price, category |-> p.category]

\* Fields the Order schema fills in on construction: never shared yet
OrderSchemaDefaults == [sharedOnSocial |-> FALSE, socialShares |-> << >>]

\* new OrderModel({...}) in createOrderRecord
NewOrder(product, customerEmail, customerName, razorpayOrderId) ==
    [orderId |-> razorpayOrderId,
     productId |-> product._id,
     productName |-> product.name,
     productCategory |-> product.category,
     customerEmail |-> customerEmail,
     customerName |-> customerName,
     amount |-> product.price,
     status |-> "confirmed",
     paymentStatus |-> "pending"] @@ OrderSchemaDefaults

\* The catch block's choice of client-facing message
CheckoutErrorMessage(error) ==
    IF Includes(error, "Product") THEN error
    ELSE IF Includes(error, "Razorpay") THEN RespPaymentUnavailable
    ELSE RespCheckoutFailed

\* Every use of the session records whether the session had been ended before.
UseSession(c) == [c EXCEPT !.usedAfterEnd = c.usedAfterEnd \/ c.session = "ended"]

Throw(c, msg) == [c EXCEPT !.pc = "catch", !.error = msg]

\* uuidv4(): a token no other invocation draws
Uuidv4(i) == [uuid |-> i]

\* Mutant of CheckoutBegin: the `return` after the validation error is missing.
CheckoutBeginNoReturn(i) ==
    /\ ck[i].pc = "idle"
    /\ \E body \in CheckoutBodies :
        ck' = [ck EXCEPT ![i] = [@ EXCEPT
                 !.pc = "startSession", !.body = body, !.receipt = Uuidv4(i),
                 !.responses = IF CheckoutSchemaOk(body) THEN @
                               ELSE Append(@, Failure(RespValidationFailed))]]
    /\ UNCHANGED << products, orders, gatewayOrders,
                    payVars, confirmVars, shareVars, dbVars >>

\* Lines 33-45: schema check, destructuring, receipt = uuidv4()
CheckoutBegin(i) ==
    /\ ck[i].pc = "idle"
    /\ \E body \in CheckoutBodies :
        IF ~CheckoutSchemaOk(body)
        THEN ck' = [ck EXCEPT ![i] = [@ EXCEPT
                        !.pc = "done", !.body = body,
                        !.responses = Append(@, Failure(RespValidationFailed))]]
        ELSE ck' = [ck EXCEPT ![i] = [@ EXCEPT
                        !.pc = "startSession", !.body = body,
                        !.receipt = Uuidv4(i)]]
    /\ UNCHANGED << products, orders, gatewayOrders,
                    payVars, confirmVars, shareVars, dbVars >>

\* Lines 47-48: startSession, startTransaction
CheckoutStartSession(i) ==
    /\ ck[i].pc = "startSession"
    /\ ck' = [ck EXCEPT ![i] = [@ EXCEPT
                !.pc = "fetchProduct", !.session = "open", !.txn = "active"]]
    /\ UNCHANGED << products, orders, gatewayOrders,
                    payVars, confirmVars, shareVars, dbVars >>

\* Lines 53-57 with validateAndFetchProduct
CheckoutFetchProduct(i) ==
    /\ ck[i].pc = "fetchProduct"
    /\ LET c == ck[i]
           id == c.body.productId
       IN  IF ~ObjectIdIsValid(id)
           THEN ck' = [ck EXCEPT ![i] = Throw(c, MsgInvalidId)]
           ELSE \/ ck' = [ck EXCEPT ![i] = Throw(UseSession(c), MsgDriver)]
                \/ LET p == FindProductById(id)
                   IN  IF p = Null
                       THEN ck' = [ck EXCEPT ![i] = Throw(UseSession(c), MsgProductNotFound)]
                       ELSE ck' = [ck EXCEPT ![i] = [UseSession(c) EXCEPT
                                      !.pc = "gateway", !.product = ProductSnapshot(p)]]
    /\ UNCHANGED << products, orders, gatewayOrders,
                    payVars, confirmVars, shareVars, dbVars >>

\* razorpay.orders.create: what the gateway call can produce for this request.
\* It throws, resolves to nothing, resolves to an object that carries no id,
\* or resolves to a new gateway order whose id the gateway gives to no other order.
RazorpayCreate(i, amount, receipt) ==
    { [kind |-> "throw", value |-> Null],
      [kind |-> "return", value |-> Null],
      [kind |-> "return",
       value |-> [id |-> Null, amount |-> amount, currency |-> "INR", receipt |-> receipt]],
      [kind |-> "return",
       value |-> [id |-> [gw |-> i], amount |-> amount,
                  currency |-> "INR", receipt |-> receipt]] }

\* Lines 60-69 with createRazorpayOrder (248-271)
CheckoutCreateRazorpayOrder(i) ==
    /\ ck[i].pc = "gateway"
    /\ LET c == [ck[i] EXCEPT !.gatewayCalled = TRUE]
       IN  \E r \in RazorpayCreate(i, c.product.price, c.receipt) :
             IF r.kind = "throw"
             THEN /\ ck' = [ck EXCEPT ![i] = Throw(c, MsgGatewayThrow)]
                  /\ UNCHANGED gatewayOrders
             ELSE IF r.value = Null
             THEN /\ ck' = [ck EXCEPT ![i] = Throw(c, MsgGatewayNull)]
                  /\ UNCHANGED gatewayOrders
             ELSE /\ ck' = [ck EXCEPT ![i] = [c EXCEPT
                             !.pc = "createOrder", !.razorpayOrder = r.value]]
                  /\ IF r.value.id = Null
                     THEN UNCHANGED gatewayOrders
                     ELSE gatewayOrders' = Append(gatewayOrders, r.value)
    /\ UNCHANGED << products, orders,
                    payVars, confirmVars, shareVars, dbVars >>

\* Mutant of CheckoutCreateOrderRecord: the receipt token is passed as the order id.
CheckoutCreateOrderRecordReceiptId(i) ==
    /\ ck[i].pc = "createOrder"
    /\ LET c == [UseSession(ck[i]) EXCEPT !.writeAttempted = TRUE]
           doc == NewOrder(c.product, c.body.customerEmail, c.body.customerName,
                           c.receipt)
       IN  \/ ck' = [ck EXCEPT ![i] = Throw(c, MsgSaveFail)]
           \/ /\ OrderModelValid(doc)
              /\ ck' = [ck EXCEPT ![i] = [c EXCEPT
                          !.pc = "commit", !.order = doc,
                          !.pending = Append(@, doc)]]
    /\ UNCHANGED << products, orders, gatewayOrders,
                    payVars, confirmVars, shareVars, dbVars >>

\* Lines 72-82 with createOrderRecord (281-309): order.save({ session })
CheckoutCreateOrderRecord(i) ==
    /\ ck[i].pc = "createOrder"
    /\ LET c == [UseSession(ck[i]) EXCEPT !.writeAttempted = TRUE]
           doc == NewOrder(c.product, c.body.customerEmail, c.body.customerName,
                           c.razorpayOrder.id)
       IN  \/ ck' = [ck EXCEPT ![i] = Throw(c, MsgSaveFail)]
           \/ /\ OrderModelValid(doc)
              /\ ck' = [ck EXCEPT ![i] = [c EXCEPT
                          !.pc = "commit", !.order = doc,
                          !.pending = Append(@, doc)]]
    /\ UNCHANGED << products, orders, gatewayOrders,
                    payVars, confirmVars, shareVars, dbVars >>

\* Mutant of CheckoutCommit: the success response is written without waiting
\* for the commit's outcome.
CheckoutCommitUnawaited(i) ==
    /\ ck[i].pc = "commit"
    /\ LET c == [UseSession(ck[i]) EXCEPT
                    !.commitCalled = TRUE,
                    !.responses = Append(@, Success(RespCheckoutOk, ck[i].razorpayOrder))]
       IN  \/ /\ ck' = [ck EXCEPT ![i] = Throw(c, MsgDriver)]
              /\ UNCHANGED orders
           \/ /\ orders' = orders \o c.pending
              /\ ck' = [ck EXCEPT ![i] = [c EXCEPT
                          !.pc = "finally", !.txn = "committed", !.pending = << >>]]
    /\ UNCHANGED << products, gatewayOrders,
                    payVars, confirmVars, shareVars, dbVars >>

\* Lines 85-88: commitTransaction, then the success response
CheckoutCommit(i) ==
    /\ ck[i].pc = "commit"
    /\ LET c == [UseSession(ck[i]) EXCEPT !.commitCalled = TRUE]
       IN  \/ /\ ck' = [ck EXCEPT ![i] = Throw(c, MsgDriver)]
              /\ UNCHANGED orders
           \/ /\ orders' = orders \o c.pending
              /\ ck' = [ck EXCEPT ![i] = [c EXCEPT
                          !.pc = "finally", !.txn = "committed", !.pending = << >>,
                          !.responses = Append(@, Success(RespCheckoutOk, c.razorpayOrder))]]
    /\ UNCHANGED << products, gatewayOrders,
                    payVars, confirmVars, shareVars, dbVars >>

\* Mutant of CheckoutCatch: the error response is written without aborting.
CheckoutCatchNoAbort(i) ==
    /\ ck[i].pc = "catch"
    /\ ck' = [ck EXCEPT ![i] = [@ EXCEPT
                !.pc = "finally",
                !.responses = Append(@, Failure(CheckoutErrorMessage(ck[i].error)))]]
    /\ UNCHANGED << products, orders, gatewayOrders,
                    payVars, confirmVars, shareVars, dbVars >>

\* Mutant of CheckoutCatch: the invocations share one ambient transaction, so
\* an abort discards the uncommitted writes of every invocation.
CheckoutCatchSharedTransaction(i) ==
    /\ ck[i].pc = "catch"
    /\ LET c == [UseSession(ck[i]) EXCEPT !.abortCalled = TRUE]
       IN  IF c.commitCalled
           THEN ck' = [ck EXCEPT ![i] = [c EXCEPT !.pc = "finally", !.rejected = TRUE]]
           ELSE ck' = [j \in Slots |->
                         IF j = i
                         THEN [c EXCEPT
                                 !.pc = "finally", !.txn = "aborted", !.pending = << >>,
                                 !.responses = Append(@, Failure(CheckoutErrorMessage(c.error)))]
                         ELSE [ck[j] EXCEPT !.pending = << >>]]
    /\ UNCHANGED << products, orders, gatewayOrders,
                    payVars, confirmVars, shareVars, dbVars >>

\* Lines 90-108: abortTransaction, then the error response.  abortTransaction is
\* awaited unguarded as the first statement of the catch block.  The driver
\* refuses it once commitTransaction has been called on the session, whatever
\* the commit's outcome; the rejection leaves the catch block, so the handler's
\* promise rejects and no response is written.
CheckoutCatch(i) ==
    /\ ck[i].pc = "catch"
    /\ LET c == [UseSession(ck[i]) EXCEPT !.abortCalled = TRUE]
       IN  IF c.commitCalled
           THEN ck' = [ck EXCEPT ![i] = [c EXCEPT !.pc = "finally", !.rejected = TRUE]]
           ELSE ck' = [ck EXCEPT ![i] = [c EXCEPT
                       !.pc = "finally", !.txn = "aborted", !.pending = << >>,
                       !.responses = Append(@, Failure(CheckoutErrorMessage(c.error)))]]
    /\ UNCHANGED << products, orders, gatewayOrders,
                    payVars, confirmVars, shareVars, dbVars >>

\* Lines 109-113: session.endSession(); writes that were never committed are lost
CheckoutFinally(i) ==
    /\ ck[i].pc = "finally"
    /\ ck' = [ck EXCEPT ![i] = [UseSession(@) EXCEPT
                !.pc = "done", !.session = "ended", !.pending = << >>]]
    /\ UNCHANGED << products, orders, gatewayOrders,
                    payVars, confirmVars, shareVars, dbVars >>

handleCheckout(i) ==
    \/ CheckoutBegin(i)
    \/ CheckoutStartSession(i)
    \/ CheckoutFetchProduct(i)
    \/ CheckoutCreateRazorpayOrder(i)
    \/ CheckoutCreateOrderRecord(i)
    \/ CheckoutCommit(i)
    \/ CheckoutCatch(i)
    \/ CheckoutFinally(i)

---------------------------------------------------------------------------
(* validatePayment *)

\* Identifiers in the payment body are texts, written as tuples of characters.
PayOrderIds == { << "o" >>, << "o", "|", "1" >> }
PaymentIds == { << "p" >>, << "1", "|", "p" >> }

\* `${razorpay_order_id}|${razorpay_payment_id}`
SignedText(orderId, paymentId) == orderId \o << "|" >> \o paymentId

\* crypto.createHmac('sha256', key).update(text): an ideal keyed hash, which
\* agrees on two inputs only if key and text agree
Hmac(key, text) == [alg |-> "sha256", key |-> key, text |-> text]

\* .digest('hex'): the lower-case hexadecimal text of the hash
HexDigest(h) == [hex |-> h, letters |-> "lower"]

\* Signatures a client may send: the digest under the secret or under another
\* key of any signed text, or such a digest spelled in upper-case letters
Signatures ==
    { HexDigest(Hmac(k, SignedText(o, p))) :
        k \in {Secret, OtherKey}, o \in PayOrderIds, p \in PaymentIds }
    \cup { [hex |-> Hmac(Secret, SignedText(o, p)), letters |-> "upper"] :
             o \in PayOrderIds, p \in PaymentIds }

PaymentBodies ==
    [razorpay_order_id : PayOrderIds,
     razorpay_payment_id : PaymentIds,
     razorpay_signature : Signatures \cup {Null}]

\* PaymentDetailsSchema.safeParse(req.body).success: the three texts are present
PaymentDetailsSchemaOk(body) == body.razorpay_signature # Null

RespPaymentRequestInvalid == << "Payment", "Request", "validation", "failed" >>
RespInvalidSignature == << "Invalid", "signature" >>
RespPaymentValidated == << "Payment", "Validated" >>
RespVerificationFailed == << "Verification", "failed" >>

\* Mutant of ValidatePaymentResponse: the signed text is built payment id first.
ValidatePaymentResponseSwapped(body) ==
    IF ~PaymentDetailsSchemaOk(body) THEN Failure(RespPaymentRequestInvalid)
    ELSE IF keySecret = Null THEN Failure(RespVerificationFailed)
    ELSE LET generatedSignature ==
                 HexDigest(Hmac(keySecret,
                     SignedText(body.razorpay_payment_id, body.razorpay_order_id)))
         IN  IF generatedSignature # body.razorpay_signature
             THEN Failure(RespInvalidSignature)
             ELSE Success(RespPaymentValidated, Null)

\* Lines 116-145: the response validatePayment sends for a body.  createHmac
\* throws when the key is not set, which the catch block answers.
ValidatePaymentResponse(body) ==
    IF ~PaymentDetailsSchemaOk(body) THEN Failure(RespPaymentRequestInvalid)
    ELSE IF keySecret = Null THEN Failure(RespVerificationFailed)
    ELSE LET generatedSignature ==
                 HexDigest(Hmac(keySecret,
                     SignedText(body.razorpay_order_id, body.razorpay_payment_id)))
         IN  IF generatedSignature # body.razorpay_signature
             THEN Failure(RespInvalidSignature)
             ELSE Success(RespPaymentValidated, Null)

validatePayment ==
    /\ validations < MaxValidates
    /\ validations' = validations + 1
    /\ \E body \in PaymentBodies :
          lastValidate' = [body |-> body, response |-> ValidatePaymentResponse(body)]
    /\ UNCHANGED << products, orders, gatewayOrders, ck, keySecret, confirmVars, shareVars, dbVars >>

---------------------------------------------------------------------------
(* confirmOrder and the confirmation email *)

ConfirmBody(productId, orderId, email) ==
    [customerName |-> "A", customerEmail |-> email, productId |-> productId,
     paymentDetails |-> [razorpay_payment_id |-> "pay_1",
                         razorpay_order_id |-> orderId,
                         razorpay_signature |-> "sig_1"]]

\* Requests: any product id with the id of checkout 1's gateway order or with an
\* id no gateway order has, and one body the schema rejects
ConfirmBodies ==
    { ConfirmBody(p, o, GoodEmail) :
        p \in {IdP1, IdP2, IdAbsent, IdMalformed}, o \in {[gw |-> 1], [gw |-> 0]} }
    \cup { ConfirmBody(IdP1, [gw |-> 1], BadEmail) }

\* OrderConfirmSchema.safeParse(req.body).success
OrderConfirmSchemaOk(body) == body.customerEmail = GoodEmail

RespConfirmInvalid == << "Order", "Confirm", "Request", "validation", "failed" >>
RespOrderNotFound == << "Order", "not", "found" >>
RespOrderConfirmed == << "Order", "confirmed" >>
RespWentWrong == << "Something", "Went", "wrong" >>

\* Lines 187-191: the summary returned to the client
ConfirmSummary(product, razorpay_order_id) ==
    [product |-> product.name, amount |-> product.price,
     orderNumber |-> razorpay_order_id]

\* One confirmOrder call as it is recorded: the body, what the lookups gave
\* (Null: nothing found or not reached), whether a lookup rejected, whether an
\* email was dispatched, and the response
ConfirmCall(body, product, order, threw, dispatched, response) ==
    [body |-> body, product |-> product, order |-> order, threw |-> threw,
     dispatched |-> dispatched, response |-> response]

\* Lines 181-186: sendConfirmationEmailAsync is called and not awaited
NewEmail(call, body, productName) ==
    [call |-> call, to |-> body.customerEmail, name |-> body.customerName,
     product |-> productName, order |-> body.paymentDetails.razorpay_order_id,
     status |-> "pending"]

\* Mutant of confirmOrder: the handler marks the Order paid when it confirms it.
confirmOrderMarksPaid ==
    /\ Len(confirms) < MaxConfirms
    /\ \E body \in ConfirmBodies :
        LET orderId == body.paymentDetails.razorpay_order_id
            p == FindProductById(body.productId)
            o == FindOrder(orderId)
        IN  /\ OrderConfirmSchemaOk(body) /\ ObjectIdIsValid(body.productId)
            /\ p # Null /\ o # Null
            /\ emails' = Append(emails, NewEmail(Len(confirms) + 1, body, p.name))
            /\ confirms' = Append(confirms,
                   ConfirmCall(body, p, o, FALSE, TRUE,
                       Success(RespOrderConfirmed, ConfirmSummary(p, orderId))))
            /\ orders' = [k \in 1..Len(orders) |->
                            IF orders[k].orderId = orderId
                            THEN [orders[k] EXCEPT !.paymentStatus = "paid"]
                            ELSE orders[k]]
    /\ UNCHANGED << products, gatewayOrders, ck, payVars, unhandled, shareVars, dbVars >>

\* Mutant of confirmOrder: the email is dispatched before the Order lookup.
confirmOrderEmailFirst ==
    /\ Len(confirms) < MaxConfirms
    /\ \E body \in ConfirmBodies :
        LET orderId == body.paymentDetails.razorpay_order_id
            p == FindProductById(body.productId)
            o == FindOrder(orderId)
        IN  /\ OrderConfirmSchemaOk(body) /\ ObjectIdIsValid(body.productId)
            /\ p # Null
            /\ emails' = Append(emails, NewEmail(Len(confirms) + 1, body, p.name))
            /\ confirms' = Append(confirms,
                   IF o = Null
                   THEN ConfirmCall(body, p, Null, FALSE, TRUE, Failure(RespOrderNotFound))
                   ELSE ConfirmCall(body, p, o, FALSE, TRUE,
                            Success(RespOrderConfirmed, ConfirmSummary(p, orderId))))
    /\ UNCHANGED << products, orders, gatewayOrders, ck, payVars, unhandled, shareVars, dbVars >>

\* Lines 147-199.  ProductModel.findById rejects for an id it cannot cast to an
\* ObjectId, and either lookup may reject with a database error; the catch
\* block answers every rejection.
confirmOrder ==
    /\ Len(confirms) < MaxConfirms
    /\ \E body \in ConfirmBodies :
        LET orderId == body.paymentDetails.razorpay_order_id
            p == FindProductById(body.productId)
            o == FindOrder(orderId)
            answer(call) ==
                /\ confirms' = Append(confirms, call)
                /\ UNCHANGED emails
        IN  IF ~OrderConfirmSchemaOk(body)
            THEN answer(ConfirmCall(body, Null, Null, FALSE, FALSE,
                                    Failure(RespConfirmInvalid)))
            ELSE \/ answer(ConfirmCall(body, Null, Null, TRUE, FALSE,
                                       Failure(RespWentWrong)))
                 \/ /\ ObjectIdIsValid(body.productId)
                    /\ IF p = Null
                       THEN answer(ConfirmCall(body, Null, Null, FALSE, FALSE,
                                               Failure(RespOrderNotFound)))
                       ELSE \/ answer(ConfirmCall(body, p, Null, TRUE, FALSE,
                                                  Failure(RespWentWrong)))
                            \/ IF o = Null
                               THEN answer(ConfirmCall(body, p, Null, FALSE, FALSE,
                                                       Failure(RespOrderNotFound)))
                               ELSE /\ emails' = Append(emails,
                                           NewEmail(Len(confirms) + 1, body, p.name))
                                    /\ confirms' = Append(confirms,
                                           ConfirmCall(body, p, o, FALSE, TRUE,
                                               Success(RespOrderConfirmed,
                                                       ConfirmSummary(p, orderId))))
    /\ UNCHANGED << products, orders, gatewayOrders, ck, payVars, unhandled, shareVars, dbVars >>

\* Mutant of sendConfirmationEmailAsync: the try/catch around the send is missing.
sendConfirmationEmailUncaught(k) ==
    /\ k \in 1..Len(emails)
    /\ emails[k].status = "pending"
    /\ \/ /\ emails' = [emails EXCEPT ![k].status = "sent"]
          /\ UNCHANGED unhandled
       \/ /\ emails' = [emails EXCEPT ![k].status = "failed"]
          /\ unhandled' = unhandled + 1
    /\ UNCHANGED << products, orders, gatewayOrders, ck, payVars, confirms, shareVars, dbVars >>

\* Lines 318-330 with sendConfirmationEmail (part_001 20-111): the send
\* completes or fails after the response; a failure is caught and logged.
sendConfirmationEmailAsync(k) ==
    /\ k \in 1..Len(emails)
    /\ emails[k].status = "pending"
    /\ \/ emails' = [emails EXCEPT ![k].status = "sent"]
       \/ emails' = [emails EXCEPT ![k].status = "failed-logged"]
    /\ UNCHANGED << products, orders, gatewayOrders, ck, payVars, confirms, unhandled, shareVars, dbVars >>

---------------------------------------------------------------------------
(* generateShareUrl (src/unnamed/part_003, lines 63-83)

   A string is a tuple of tokens: a token is one code point that
   encodeURIComponent escapes, one lone surrogate, or a run of characters
   it leaves alone.  A JavaScript value is tagged: JsString(t) is a
   string, Inherited(k) is the member k of Object.prototype. *)

MaxOrderNumberLen == 2    \* tokens in an order number given to generateShareUrl

JsString(t) == [string |-> t]
Inherited(k) == [inherited |-> k]
Undefined == [undefined |-> TRUE]

\* UTF-8 percent escapes of the code points encodeURIComponent does not keep
PercentCode ==
    [t \in {" ", "#", "?", "=", ":", "/", "&", "U+1F3AF", "U+1F4AB"} |->
        CASE t = " " -> "%20"
          [] t = "#" -> "%23"
          [] t = "?" -> "%3F"
          [] t = "=" -> "%3D"
          [] t = ":" -> "%3A"
          [] t = "/" -> "%2F"
          [] t = "&" -> "%26"
          [] t = "U+1F3AF" -> "%F0%9F%8E%AF"
          [] t = "U+1F4AB" -> "%F0%9F%92%AB"]

\* Code units that are half of a surrogate pair, standing alone
LoneSurrogates == {"U+D800"}

\* encodeURIComponent throws URIError on a lone surrogate
EncodeThrows(text) == \E k \in 1..Len(text) : text[k] \in LoneSurrogates

EncodeURIComponent(text) ==
    [k \in 1..Len(text) |->
        IF text[k] \in DOMAIN PercentCode THEN PercentCode[text[k]] ELSE text[k]]

\* Number to string, digit by digit
RECURSIVE NumberToString(_)
NumberToString(n) ==
    LET digit == CASE n % 10 = 0 -> "0" [] n % 10 = 1 -> "1" [] n % 10 = 2 -> "2"
                   [] n % 10 = 3 -> "3" [] n % 10 = 4 -> "4" [] n % 10 = 5 -> "5"
                   [] n % 10 = 6 -> "6" [] n % 10 = 7 -> "7" [] n % 10 = 8 -> "8"
                   [] n % 10 = 9 -> "9"
    IN  IF n < 10 THEN << digit >> ELSE Append(NumberToString(n \div 10), digit)

DefaultBaseUrl == << "https", ":", "/", "/", "buynothing.com" >>
CustomBaseUrl == << "https", ":", "/", "/", "shop.example" >>

\* Line 66
BaseUrl == IF baseUrlEnv # Null THEN baseUrlEnv ELSE DefaultBaseUrl

\* Line 67, before encoding
ShareMessage(order, orderNumber) ==
    << "I", " ", "just", " ", "bought", " " >> \o NumberToString(order.amount)
    \o << " ", "worth", " ", "of", " ", "absolutely", " ", "nothing", " ", "from",
          " ", "buyNothing.com!", " ", "U+1F3AF", " ", "Order", " ", "#" >>
    \o orderNumber
    \o << " ", "-", " ", "achieving", " ", "peak", " ", "minimalism!", " ", "U+1F4AB" >>

\* Line 68, before encoding
ShareRef(orderNumber) == BaseUrl \o << "?", "ref", "=" >> \o orderNumber

\* Lines 70-76
ShareUrls(message, url) ==
    [facebook |-> << "https://www.facebook.com/sharer/sharer.php?u=" >> \o url
                  \o << "&quote=" >> \o message,
     twitter |-> << "https://twitter.com/intent/tweet?text=" >> \o message
                 \o << "&url=" >> \o url
                 \o << "&hashtags=buynothing,minimalism,nothing" >>,
     linkedin |-> << "https://www.linkedin.com/sharing/share-offsite/?url=" >> \o url
                  \o << "&summary=" >> \o message,
     whatsapp |-> << "https://wa.me/?text=" >> \o message \o << "%20" >> \o url,
     instagram |-> << "https://www.instagram.com/?url=" >> \o url]

SupportedPlatforms == {"facebook", "twitter", "linkedin", "whatsapp", "instagram"}

\* Members every object literal inherits from Object.prototype
ObjectPrototypeKeys ==
    {"constructor", "toString", "valueOf", "hasOwnProperty", "isPrototypeOf",
     "propertyIsEnumerable", "toLocaleString", "__proto__"}

\* shareUrls[platform]: an own property, an inherited member, or undefined
PropertyLookup(shareUrls, platform) ==
    IF platform \in DOMAIN shareUrls THEN JsString(shareUrls[platform])
    ELSE IF platform \in ObjectPrototypeKeys THEN Inherited(platform)
    ELSE Undefined

Truthy(v) == v # Undefined /\ v # JsString(<< >>)

\* Lines 63-83: a null order (line 67 reads order.amount) and a URIError
\* both end in the catch block, which returns ''
generateShareUrl(orderNumber, platform, order) ==
    IF order = Null \/ EncodeThrows(ShareMessage(order, orderNumber))
                    \/ EncodeThrows(ShareRef(orderNumber))
    THEN JsString(<< >>)
    ELSE LET message == EncodeURIComponent(ShareMessage(order, orderNumber))
             url == EncodeURIComponent(ShareRef(orderNumber))
             shareUrls == ShareUrls(message, url)
             value == PropertyLookup(shareUrls, platform)
         IN  IF Truthy(value) THEN value ELSE JsString(shareUrls.facebook)

OrderNumberTokens == {"A", "#", "U+D800"}

RECURSIVE TextsUpTo(_)
TextsUpTo(n) ==
    IF n = 0 THEN {<< >>}
    ELSE TextsUpTo(n - 1)
         \cup { Append(t, c) : t \in { u \in TextsUpTo(n - 1) : Len(u) = n - 1 },
                               c \in OrderNumberTokens }

SharePlatforms == SupportedPlatforms \cup {"tiktok", "", "constructor", "toString"}

\* One call of generateShareUrl on arguments drawn from the bounded sets
CallGenerateShareUrl ==
    /\ \E orderNumber \in TextsUpTo(MaxOrderNumberLen),
          platform \in SharePlatforms,
          order \in {Null, [amount |-> 500], [amount |-> 700]} :
            urlCall' = [orderNumber |-> orderNumber, platform |-> platform,
                        order |-> order,
                        result |-> generateShareUrl(orderNumber, platform, order)]
    /\ UNCHANGED << products, orders, gatewayOrders, ck, payVars, confirmVars,
                    shareCount, lastShare, baseUrlEnv, dbVars >>

---------------------------------------------------------------------------
(* ShareController.handleShare (src/unnamed/part_003, lines 11-40) *)

MaxShares == 2         \* handleShare calls

\* The gateway order id as the string the client sends back
OrderIdText(id) == << "order_" >> \o NumberToString(id.gw)

ShareBody(orderNumber, platform) == [orderNumber |-> orderNumber, platform |-> platform]

ShareBodies ==
    { ShareBody(n, p) : n \in {[gw |-> 1], [gw |-> 2], [gw |-> 0]},
                        p \in {"facebook", "twitter"} }
    \cup { ShareBody(Null, "facebook") }

ShareSchemaOk(body) == body.orderNumber # Null /\ body.platform \in STRING

RespFailedToShare == << "Failed", "to", "share" >>
RespShared(platform) == << "Successfully", "shared", "on", platform >>

\* Mutant of ShareOn: the share list is replaced by the new event instead of
\* being appended to.
ShareOnReplacing(order, platform, now) ==
    [order EXCEPT !.sharedOnSocial = TRUE,
                  !.socialShares = << [platform |-> platform, sharedAt |-> now] >>]

\* Lines 30-31, on the document findOne returned
ShareOn(order, platform, now) ==
    [order EXCEPT !.sharedOnSocial = TRUE,
                  !.socialShares = Append(@, [platform |-> platform, sharedAt |-> now])]

\* Index in the store of the document findOne({orderId}) returns; 0 for none
FindOneIndex(orderId) ==
    IF FindOrder(orderId) = Null THEN 0
    ELSE CHOOSE k \in 1..Len(orders) :
            /\ orders[k].orderId = orderId
            /\ \A j \in 1..(k - 1) : orders[j].orderId # orderId

\* Lines 11-40.  dbThrows: findOne or save rejects (driver error, schema
\* validation of the document), which the catch block answers.
handleShare ==
    /\ shareCount < MaxShares
    /\ shareCount' = shareCount + 1
    /\ \E body \in ShareBodies, dbThrows \in BOOLEAN :
         LET k == FindOneIndex(body.orderNumber)
             shared == ShareOn(orders[k], body.platform, shareCount + 1)
         IN  IF ~ShareSchemaOk(body)
             THEN /\ lastShare' = [body |-> body, response |-> Failure(RespFailedToShare)]
                  /\ UNCHANGED orders
             ELSE IF dbThrows
             THEN /\ lastShare' = [body |-> body, response |-> Failure(RespFailedToShare)]
                  /\ UNCHANGED orders
             ELSE IF k = 0
             THEN /\ lastShare' = [body |-> body, response |-> Failure(RespOrderNotFound)]
                  /\ UNCHANGED orders
             ELSE /\ orders' = [orders EXCEPT ![k] = shared]
                  /\ lastShare' =
                       [body |-> body,
                        response |-> Success(RespShared(body.platform),
                                             generateShareUrl(OrderIdText(body.orderNumber),
                                                              body.platform, shared))]
    /\ UNCHANGED << products, gatewayOrders, ck, payVars, confirmVars,
                    urlCall, baseUrlEnv, dbVars >>

---------------------------------------------------------------------------
(* connectToDatabase (src/unnamed/part_002, lines 57-78) and the middleware
   that calls it for every request (src/unnamed/part_004, lines 81-89) *)

MaxRequests == 3       \* HTTP requests passing the middleware, concurrently

Mongoose == [mongoose |-> "default"]     \* what mongoose.connect resolves to
MongoUri == [uri |-> "mongodb"]
MsgNoConnectionString == << "Database", "connection", "string", "not", "found" >>

NewRequest ==
    [stage |-> "middleware", sawCache |-> FALSE, connecting |-> FALSE,
     returned |-> Null, error |-> NoMsg, route |-> FALSE, errorHandler |-> FALSE]

\* A request arrives at the middleware
RequestArrives ==
    /\ Len(requests) < MaxRequests
    /\ requests' = Append(requests, NewRequest)
    /\ UNCHANGED << products, orders, gatewayOrders, ck, payVars, confirmVars,
                    shareVars, mongoUri, cachedConnection, connects >>

\* connectToDatabase up to its await: lines 60-70
ConnectToDatabaseBegin(r) ==
    /\ requests[r].stage = "middleware"
    /\ IF cachedConnection # Null
       THEN /\ requests' = [requests EXCEPT ![r].stage = "returned",
                                            ![r].sawCache = TRUE,
                                            ![r].returned = cachedConnection]
            /\ UNCHANGED connects
       ELSE IF mongoUri = Null
       THEN /\ requests' = [requests EXCEPT ![r].stage = "threw",
                                            ![r].error = MsgNoConnectionString]
            /\ UNCHANGED connects
       ELSE /\ requests' = [requests EXCEPT ![r].stage = "connecting",
                                            ![r].connecting = TRUE]
            /\ connects' = connects + 1
    /\ UNCHANGED << products, orders, gatewayOrders, ck, payVars, confirmVars,
                    shareVars, mongoUri, cachedConnection >>

\* Mutant of ConnectToDatabaseEnd: the cache is filled whether or not the
\* connect succeeded.
ConnectToDatabaseEndAlwaysCaches(r) ==
    /\ requests[r].stage = "connecting"
    /\ cachedConnection' = Mongoose
    /\ \/ requests' = [requests EXCEPT ![r].stage = "returned",
                                       ![r].returned = Mongoose]
       \/ requests' = [requests EXCEPT ![r].stage = "threw",
                                       ![r].error = MsgDriver]
    /\ UNCHANGED << products, orders, gatewayOrders, ck, payVars, confirmVars,
                    shareVars, mongoUri, connects >>

\* mongoose.connect settles: lines 71-77
ConnectToDatabaseEnd(r) ==
    /\ requests[r].stage = "connecting"
    /\ \/ /\ cachedConnection' = Mongoose
          /\ requests' = [requests EXCEPT ![r].stage = "returned",
                                          ![r].returned = Mongoose]
       \/ /\ requests' = [requests EXCEPT ![r].stage = "threw",
                                          ![r].error = MsgDriver]
          /\ UNCHANGED cachedConnection
    /\ UNCHANGED << products, orders, gatewayOrders, ck, payVars, confirmVars,
                    shareVars, mongoUri, connects >>

\* The middleware after its await: next() or next(error)
MiddlewareContinue(r) ==
    /\ requests[r].stage \in {"returned", "threw"}
    /\ IF requests[r].stage = "returned"
       THEN requests' = [requests EXCEPT ![r].stage = "done", ![r].route = TRUE]
       ELSE requests' = [requests EXCEPT ![r].stage = "done", ![r].errorHandler = TRUE]
    /\ UNCHANGED << products, orders, gatewayOrders, ck, payVars, confirmVars,
                    shareVars, mongoUri, cachedConnection, connects >>

---------------------------------------------------------------------------
(* Specification of the checkout flow *)

\* No share request made yet; the database connection not yet asked for
ShareIdle ==
    /\ shareCount = 0
    /\ lastShare = Null
    /\ urlCall = Null
    /\ baseUrlEnv = Null

DbIdle ==
    /\ mongoUri = MongoUri
    /\ cachedConnection = Null
    /\ connects = 0
    /\ requests = << >>

Init ==
    /\ products = Catalog
    /\ orders = << >>
    /\ gatewayOrders = << >>
    /\ ck = [i \in Slots |-> IdleCheckout]
    /\ keySecret = Secret
    /\ validations = 0
    /\ lastValidate = Null
    /\ confirms = << >>
    /\ emails = << >>
    /\ unhandled = 0
    /\ ShareIdle
    /\ DbIdle

Next == \E i \in Slots : handleCheckout(i)

Spec == Init /\ [][Next]_vars

---------------------------------------------------------------------------
(* Specification of payment validation: one checkout fills the store, the
   key may or may not be configured *)

InitPay ==
    /\ products = Catalog
    /\ orders = << >>
    /\ gatewayOrders = << >>
    /\ ck = [i \in Slots |-> IdleCheckout]
    /\ keySecret \in {Secret, Null}
    /\ validations = 0
    /\ lastValidate = Null
    /\ confirms = << >>
    /\ emails = << >>
    /\ unhandled = 0
    /\ ShareIdle
    /\ DbIdle

NextPay ==
    \/ handleCheckout(1)
    \/ validatePayment

SpecPay == InitPay /\ [][NextPay]_vars

---------------------------------------------------------------------------
(* Specification of order confirmation: one checkout fills the store *)

NextConfirm ==
    \/ handleCheckout(1)
    \/ confirmOrder
    \/ \E k \in 1..MaxConfirms : sendConfirmationEmailAsync(k)

SpecConfirm == Init /\ [][NextConfirm]_vars

---------------------------------------------------------------------------
(* Specification of generateShareUrl: calls on arguments from bounded sets,
   with BASE_URL set or not *)

InitShareUrl ==
    /\ products = Catalog
    /\ orders = << >>
    /\ gatewayOrders = << >>
    /\ ck = [i \in Slots |-> IdleCheckout]
    /\ keySecret = Secret
    /\ validations = 0
    /\ lastValidate = Null
    /\ confirms = << >>
    /\ emails = << >>
    /\ unhandled = 0
    /\ shareCount = 0
    /\ lastShare = Null
    /\ urlCall = Null
    /\ baseUrlEnv \in {Null, CustomBaseUrl}
    /\ DbIdle

NextShareUrl == CallGenerateShareUrl

SpecShareUrl == InitShareUrl /\ [][NextShareUrl]_vars

---------------------------------------------------------------------------
(* Specification of sharing: two checkouts fill the store *)

NextShare ==
    \/ handleCheckout(1)
    \/ handleCheckout(2)
    \/ handleShare

SpecShare == Init /\ [][NextShare]_vars

---------------------------------------------------------------------------
(* Specification of the database connection: concurrent requests, with the
   connection string configured or not *)

InitDb ==
    /\ products = Catalog
    /\ orders = << >>
    /\ gatewayOrders = << >>
    /\ ck = [i \in Slots |-> IdleCheckout]
    /\ keySecret = Secret
    /\ validations = 0
    /\ lastValidate = Null
    /\ confirms = << >>
    /\ emails = << >>
    /\ unhandled = 0
    /\ ShareIdle
    /\ mongoUri \in {MongoUri, Null}
    /\ cachedConnection = Null
    /\ connects = 0
    /\ requests = << >>

NextDb ==
    \/ RequestArrives
    \/ \E r \in 1..MaxRequests :
          /\ r <= Len(requests)
          /\ \/ ConnectToDatabaseBegin(r)
             \/ ConnectToDatabaseEnd(r)
             \/ MiddlewareContinue(r)

SpecDb == InitDb /\ [][NextDb]_vars

---------------------------------------------------------------------------
(* Properties of the checkout flow (specification Spec) *)

\* Orders in the store that carry the given order id
OrdersWithId(id) == { k \in 1..Len(orders) : orders[k].orderId = id }

\* The invocation has sent a success response
SentSuccess(i) == \E k \in 1..Len(ck[i].responses) : ck[i].responses[k].success

\* The gateway step of the invocation failed (it threw, or it returned no order)
GatewayFailed(i) == ck[i].error \in {MsgGatewayThrow, MsgGatewayNull}

\* C1: whenever handleCheckout has sent the success response, its transaction
\* was committed and the Order Store holds exactly one Order whose orderId is
\* the id of the returned gateway order, with status 'confirmed' and
\* paymentStatus 'pending'.
C1_SuccessImpliesOneCommittedOrder ==
    \A i \in Slots : \A k \in 1..Len(ck[i].responses) :
        ck[i].responses[k].success =>
            LET r == ck[i].responses[k]
            IN  /\ r.message = RespCheckoutOk
                /\ ck[i].txn = "committed"
                /\ Cardinality(OrdersWithId(r.data.id)) = 1
                /\ \A j \in OrdersWithId(r.data.id) :
                      /\ orders[j].status = "confirmed"
                      /\ orders[j].paymentStatus = "pending"

C1_Witness ==
    \A i \in Slots : ck[i].pc = "done" /\ SentSuccess(i)

\* C2: when the gateway call failed, the order write is never attempted, the
\* transaction is never committed, it is aborted before the handler ends, and
\* the store holds no Order of that request.
C2_GatewayFailureLeavesNoOrder ==
    \A i \in Slots :
        GatewayFailed(i) =>
            /\ ~ck[i].writeAttempted
            /\ ~ck[i].commitCalled
            /\ ck[i].txn # "committed"
            /\ ck[i].order = Null
            /\ ck[i].pending = << >>
            /\ OrdersWithId([gw |-> i]) = {}
            /\ Len(orders) = Cardinality({ j \in Slots : ck[j].txn = "committed" })
            /\ ck[i].pc \in {"finally", "done"} => ck[i].txn = "aborted"

C2_Witness ==
    /\ \E i \in Slots : ck[i].pc = "done" /\ ck[i].error = MsgGatewayThrow
    /\ \E i \in Slots : ck[i].pc = "done" /\ ck[i].error = MsgGatewayNull

\* The request of the invocation is one that must be rejected before the gateway
RejectedEarly(i) ==
    /\ ck[i].body # Null
    /\ \/ ~CheckoutSchemaOk(ck[i].body)
       \/ ~ObjectIdIsValid(ck[i].body.productId)
       \/ FindProductById(ck[i].body.productId) = Null

\* C3: a request whose body fails the schema, whose product id is malformed or
\* whose product is not in the catalog makes no gateway call and writes no
\* Order; a body that fails the schema opens no session and no transaction.
C3_EarlyRejectionHasNoSideEffects ==
    \A i \in Slots :
        RejectedEarly(i) =>
            /\ ~ck[i].gatewayCalled
            /\ ~ck[i].writeAttempted
            /\ \A k \in 1..Len(gatewayOrders) : gatewayOrders[k].receipt # Uuidv4(i)
            /\ OrdersWithId([gw |-> i]) = {}
            /\ ck[i].pending = << >>
            /\ ~CheckoutSchemaOk(ck[i].body) =>
                  ck[i].session = "none" /\ ck[i].txn = "none"

C3_Witness ==
    /\ \E i \in Slots : ck[i].pc = "done" /\ ~CheckoutSchemaOk(ck[i].body)
    /\ \E i \in Slots : /\ ck[i].pc = "done"
                        /\ CheckoutSchemaOk(ck[i].body)
                        /\ ck[i].error \in {MsgInvalidId, MsgProductNotFound}

\* C4: every Order in the store carries the id of a gateway order created
\* earlier in the same checkout, distinct Orders carry distinct gateway ids,
\* and no Order id is a receipt token or an absent value.
C4_OrderIdIsGatewayId ==
    /\ \A k \in 1..Len(orders) :
          /\ \E i \in Slots :
                /\ ck[i].order = orders[k]
                /\ ck[i].razorpayOrder # Null
                /\ ck[i].razorpayOrder.id = orders[k].orderId
                /\ ck[i].razorpayOrder.receipt = ck[i].receipt
                /\ \E g \in 1..Len(gatewayOrders) : gatewayOrders[g] = ck[i].razorpayOrder
          /\ orders[k].orderId # Null
          /\ \A i \in Slots : orders[k].orderId # Uuidv4(i)
    /\ \A j, k \in 1..Len(orders) : j # k => orders[j].orderId # orders[k].orderId

\* An Order is stored, and a gateway order exists that has no Order
C4_Witness ==
    /\ Len(orders) >= 1
    /\ \E g \in 1..Len(gatewayOrders) : OrdersWithId(gatewayOrders[g].id) = {}

\* C5: once handleCheckout has released its session, exactly one of commit or
\* abort has completed on it, and the session is not used after the release.
C5_ReleasedAfterCommitOrAbort ==
    \A i \in Slots :
        ck[i].session = "ended" =>
            /\ ck[i].txn \in {"committed", "aborted"}
            /\ ~ck[i].usedAfterEnd

\* C6: when a step failed after the transaction was opened, the handler ends
\* with the transaction aborted and exactly one response, an error envelope.
C6_FailureAbortsAndAnswersOnce ==
    \A i \in Slots :
        (ck[i].pc = "done" /\ ck[i].error # NoMsg) =>
            /\ ck[i].txn = "aborted"
            /\ Len(ck[i].responses) = 1
            /\ ~ck[i].responses[1].success

---------------------------------------------------------------------------
(* Properties of payment validation (specification SpecPay) *)

\* HMAC-SHA256(secret, order_id + '|' + payment_id), in hexadecimal
ExpectedSignature(body) ==
    HexDigest(Hmac(keySecret, SignedText(body.razorpay_order_id, body.razorpay_payment_id)))

C7_Outcome ==
    (lastValidate # Null /\ keySecret # Null
        /\ PaymentDetailsSchemaOk(lastValidate.body)) =>
        IF lastValidate.body.razorpay_signature = ExpectedSignature(lastValidate.body)
        THEN lastValidate.response = Success(RespPaymentValidated, Null)
        ELSE lastValidate.response = Failure(RespInvalidSignature)

\* C7: validatePayment answers 'Payment Validated' exactly when the signature
\* is HMAC-SHA256(secret, order_id + '|' + payment_id) and 'Invalid signature'
\* for every other signature, and a validatePayment call changes no Order and
\* no Product.
C7_SignatureDecidesAndStoreUntouched ==
    /\ [] C7_Outcome
    /\ [][validations' # validations => (orders' = orders /\ products' = products)]_vars

C7_Witness ==
    /\ Len(orders) = 1
    /\ validations = MaxValidates
    /\ lastValidate.response.success
    /\ lastValidate.body.razorpay_order_id = << "o", "|", "1" >>

---------------------------------------------------------------------------
(* Properties of order confirmation (specification SpecConfirm) *)

ConfirmOrderId(c) == c.body.paymentDetails.razorpay_order_id

\* Both lookups of the call completed and found their document
BothFound(c) == c.product # Null /\ c.order # Null /\ ~c.threw

C9_Answered ==
    /\ unhandled = 0
    /\ \A k \in 1..Len(confirms) :
          LET c == confirms[k]
          IN  (c.product # Null /\ c.order # Null) =>
                /\ c.dispatched
                /\ c.response = Success(RespOrderConfirmed,
                                        ConfirmSummary(c.product, ConfirmOrderId(c)))
    /\ \A e \in 1..Len(emails) : confirms[emails[e].call].response.success

\* C9: once product and Order are found, the response is the 'Order confirmed'
\* summary; it is written while the email is still pending, no later outcome
\* of the email changes it, and an email failure raises no unhandled rejection.
C9_EmailNeverAltersResponse ==
    /\ [] C9_Answered
    /\ [][/\ \A k \in 1..Len(confirms) : confirms'[k] = confirms[k]
          /\ Len(emails') > Len(emails) =>
                /\ Len(confirms') = Len(confirms) + 1
                /\ emails'[Len(emails')].call = Len(confirms')
                /\ emails'[Len(emails')].status = "pending"]_vars

C9_Witness ==
    \E e, f \in 1..Len(emails) :
        /\ emails[e].status = "failed-logged"
        /\ confirms[emails[e].call].response.success
        /\ emails[f].status = "pending"
        /\ confirms[emails[f].call].response.success

C10_SameSummary ==
    \A j, k \in 1..Len(confirms) :
        (/\ j < k
         /\ confirms[j].body = confirms[k].body
         /\ confirms[j].response.success
         /\ ~confirms[k].threw)
        => confirms[k].response = confirms[j].response

\* C10: a repeated confirmOrder call with the same valid request returns the
\* same summary as the first, a confirmOrder call changes no Order and no
\* Product, and it dispatches at most one email.
C10_ConfirmIsRepeatable ==
    /\ [] C10_SameSummary
    /\ [][confirms' # confirms =>
            /\ orders' = orders
            /\ products' = products
            /\ Len(emails') <= Len(emails) + 1
            /\ \A e \in 1..Len(emails) : emails'[e] = emails[e]]_vars

C10_Witness ==
    /\ Len(confirms) >= 2
    /\ confirms[1].body = confirms[2].body
    /\ confirms[1].response.success
    /\ confirms[2].response = confirms[1].response
    /\ Len(emails) = 2

---------------------------------------------------------------------------
(* Further properties of the checkout flow (specification Spec) *)

\* The gateway step gave no usable order: the call threw, it returned nothing,
\* or it returned an object that carries no id
GatewayGaveNoOrder(i) ==
    \/ GatewayFailed(i)
    \/ ck[i].razorpayOrder # Null /\ ck[i].razorpayOrder.id = Null

\* C11: every checkout whose gateway step gave no usable order (exception,
\* empty response, response without an id) ends without attempting the order
\* write, and all such checkouts receive one and the same error message.
C11_GatewayFailuresNormalized ==
    /\ \A i \in Slots : GatewayGaveNoOrder(i) => ~ck[i].writeAttempted
    /\ \A i, j \in Slots :
          (/\ ck[i].pc = "done" /\ GatewayGaveNoOrder(i)
           /\ ck[j].pc = "done" /\ GatewayGaveNoOrder(j))
          => ck[i].responses = ck[j].responses

\* What a finished invocation answers, given only its own request and the
\* failures it met itself
OwnResponses(c) ==
    IF ~CheckoutSchemaOk(c.body) THEN << Failure(RespValidationFailed) >>
    ELSE IF c.error = NoMsg THEN << Success(RespCheckoutOk, c.razorpayOrder) >>
    ELSE IF c.commitCalled THEN << >>
    ELSE << Failure(CheckoutErrorMessage(c.error)) >>

\* The Order a finished invocation leaves, given only its own request
OwnOrder(i) ==
    NewOrder(ProductSnapshot(FindProductById(ck[i].body.productId)),
             ck[i].body.customerEmail, ck[i].body.customerName, [gw |-> i])

C12_OwnOutcome ==
    /\ \A i \in Slots :
          ck[i].pc = "done" =>
            /\ ck[i].responses = OwnResponses(ck[i])
            /\ IF ck[i].txn = "committed"
               THEN /\ Cardinality(OrdersWithId([gw |-> i])) = 1
                    /\ \A k \in OrdersWithId([gw |-> i]) : orders[k] = OwnOrder(i)
               ELSE OrdersWithId([gw |-> i]) = {}
    /\ \A i, j \in Slots :
          (i # j /\ ck[i].txn = "committed" /\ ck[j].txn = "committed")
          => (OrdersWithId([gw |-> i]) \cap OrdersWithId([gw |-> j]) = {}
              /\ Len(orders) >= 2)
    /\ products = Catalog

\* C12: with two handleCheckout invocations interleaved, each one's response
\* and Order are those its own request and its own failures determine; a step
\* of one invocation changes nothing of the other's transaction context, no
\* step changes or removes a committed Order, two successes leave two distinct
\* Orders, and the Product records are never modified.
C12_ConcurrentCheckoutsAreIsolated ==
    /\ [] C12_OwnOutcome
    /\ [][/\ \A k \in 1..Len(orders) : Len(orders') >= k /\ orders'[k] = orders[k]
          /\ products' = products
          /\ \A i, j \in Slots : (i # j /\ ck'[i] # ck[i]) => ck'[j] = ck[j]]_vars

\* One invocation has committed its Order while the other, for the same
\* product, has failed and aborted
C12_Witness ==
    \E i, j \in Slots :
        /\ i # j
        /\ ck[i].body # Null /\ ck[j].body # Null
        /\ ck[i].body.productId = IdP1 /\ ck[j].body.productId = IdP1
        /\ ck[i].txn = "committed"
        /\ ck[j].txn = "aborted" /\ ck[j].pc = "done"
        /\ ck[j].writeAttempted
        /\ Cardinality(OrdersWithId([gw |-> i])) = 1

---------------------------------------------------------------------------
(* Further properties of order confirmation (specification SpecConfirm) *)

\* C15: every successful confirmOrder response names the product and the
\* amount recorded in the persisted Order with the request's gateway order id.
C15_SummaryDescribesPersistedOrder ==
    \A k \in 1..Len(confirms) :
        confirms[k].response.success =>
            LET o == FindOrder(ConfirmOrderId(confirms[k]))
            IN  /\ o # Null
                /\ confirms[k].response.data.product = o.productName
                /\ confirms[k].response.data.amount = o.amount
                /\ confirms[k].response.data.orderNumber = o.orderId

---------------------------------------------------------------------------
(* Properties of generateShareUrl (specification SpecShareUrl) *)

\* URL construction throws for the arguments of the call
ShareUrlThrows(call) ==
    \/ call.order = Null
    \/ EncodeThrows(ShareMessage(call.order, call.orderNumber))
    \/ EncodeThrows(ShareRef(call.orderNumber))

\* The template of a supported platform, filled in for the call
ShareTemplate(call, platform) ==
    ShareUrls(EncodeURIComponent(ShareMessage(call.order, call.orderNumber)),
              EncodeURIComponent(ShareRef(call.orderNumber)))[platform]

\* C13: generateShareUrl with a platform outside the supported set returns
\* what it returns for 'facebook' with the same order number and order; for a
\* supported platform it returns that platform's template; when construction
\* throws it returns the empty string.
C13_UnsupportedPlatformIsFacebook ==
    urlCall # Null =>
        /\ urlCall.platform \notin SupportedPlatforms
           => urlCall.result
              = generateShareUrl(urlCall.orderNumber, "facebook", urlCall.order)
        /\ (urlCall.platform \in SupportedPlatforms /\ ~ShareUrlThrows(urlCall))
           => urlCall.result = JsString(ShareTemplate(urlCall, urlCall.platform))
        /\ ShareUrlThrows(urlCall) => urlCall.result = JsString(<< >>)

---------------------------------------------------------------------------
(* Properties of sharing (specification SpecShare) *)

\* The Order but for its share flag and share list
WithoutShares(order) == [order EXCEPT !.sharedOnSocial = FALSE, !.socialShares = << >>]

C14_ShareStep ==
    shareCount' # shareCount =>
        LET body == lastShare'.body
            k == FindOneIndex(body.orderNumber)
        IN  /\ (~ShareSchemaOk(body) \/ k = 0) => orders' = orders
            /\ lastShare'.response.success => orders' # orders
            /\ orders' # orders =>
                 /\ ShareSchemaOk(body) /\ k # 0
                 /\ Len(orders') = Len(orders)
                 /\ orders'[k].sharedOnSocial
                 /\ Len(orders'[k].socialShares) = Len(orders[k].socialShares) + 1
                 /\ orders'[k].socialShares[Len(orders'[k].socialShares)].platform
                    = body.platform
                 /\ WithoutShares(orders'[k]) = WithoutShares(orders[k])
                 /\ \A j \in 1..Len(orders) : j # k => orders'[j] = orders[j]

C14_NothingLost ==
    \A j \in 1..Len(orders) :
        /\ Len(orders') >= j
        /\ orders'[j].orderId = orders[j].orderId
        /\ Len(orders'[j].socialShares) >= Len(orders[j].socialShares)
        /\ SubSeq(orders'[j].socialShares, 1, Len(orders[j].socialShares))
           = orders[j].socialShares

\* C14: handleShare changes an Order only when one with the requested order
\* number exists, and then sets sharedOnSocial and appends exactly one event
\* for the requested platform to the end of socialShares, leaving the Order's
\* other fields and all other Orders as they were; a request that fails
\* validation or names no Order changes nothing.  Every Order with a share
\* event has sharedOnSocial set, earlier events are never removed or
\* reordered, and no Order is ever deleted.
C14_ShareOnlyAppends ==
    /\ [](\A k \in 1..Len(orders) :
             orders[k].socialShares # << >> => orders[k].sharedOnSocial)
    /\ [][C14_ShareStep /\ C14_NothingLost]_vars

\* One Order has been shared twice while another Order has never been shared
C14_Witness ==
    /\ lastShare # Null /\ lastShare.response.success
    /\ \E k, j \in 1..Len(orders) :
          /\ Len(orders[k].socialShares) = 2
          /\ orders[k].sharedOnSocial
          /\ orders[j].socialShares = << >>
          /\ ~orders[j].sharedOnSocial

---------------------------------------------------------------------------
(* Properties of the database connection (specification SpecDb) *)

\* Some connect started by a request has succeeded
SomeConnectSucceeded ==
    \E r \in 1..Len(requests) : requests[r].connecting /\ requests[r].returned # Null

C16_State ==
    /\ cachedConnection # Null <=> SomeConnectSucceeded
    /\ \A r \in 1..Len(requests) :
          /\ requests[r].sawCache
             => (~requests[r].connecting /\ requests[r].returned = cachedConnection)
          /\ requests[r].route
             => (/\ requests[r].returned = Mongoose
                 /\ requests[r].error = NoMsg
                 /\ ~requests[r].errorHandler)
          /\ requests[r].error # NoMsg
             => (~requests[r].route /\ requests[r].returned = Null)
          /\ requests[r].stage = "done"
             => (requests[r].errorHandler <=> requests[r].error # NoMsg)

C16_Step ==
    /\ cachedConnection # Null
       => (cachedConnection' = cachedConnection /\ connects' = connects)
    /\ \A r \in 1..Len(requests) :
          /\ (requests[r].stage = "middleware" /\ requests'[r].stage # "middleware"
              /\ cachedConnection # Null)
             => (requests'[r].returned = cachedConnection /\ requests'[r].sawCache)
          /\ (requests[r].error = NoMsg /\ requests'[r].error # NoMsg)
             => cachedConnection' = cachedConnection
          /\ (requests[r].stage = "middleware" /\ requests'[r].stage # "middleware"
              /\ cachedConnection = Null /\ mongoUri # Null)
             => connects' = connects + 1

\* C16: once a connectToDatabase call has succeeded, a later call returns the
\* cached connection and starts no connect; a failing call does not fill the
\* cache, which stays empty until a connect succeeds, so the next call
\* connects again; the middleware runs the route handlers only after
\* connectToDatabase returned a connection, and otherwise hands the error to
\* the error handler without running a route handler.
C16_ConnectionCachedAndGuardsRoutes ==
    /\ [] C16_State
    /\ [][C16_Step]_vars

\* A first request failed to connect and went to the error handler, a second
\* connected, and a third was served from the cache
C16_Witness ==
    \E a, b, c \in 1..Len(requests) :
        /\ requests[a].error = MsgDriver /\ requests[a].errorHandler
        /\ requests[b].connecting /\ requests[b].route
        /\ requests[c].sawCache /\ requests[c].route
        /\ connects = 2

=============================================================================
